---- MODULE Spec2Model ----
(***************************************************************************)
(* Model of notebooks/model_training.ipynb: the single training cell that  *)
(* loads the processed CSV, drops the outcome columns, splits, fits a      *)
(* random forest, evaluates it and dumps it to ../models/.                 *)
(*                                                                         *)
(* Cells of the table are kept as the text the CSV holds ("1", "25",       *)
(* "PIT"); the conversion to floats happens where scikit-learn does it     *)
(* (fit / predict) and fails there on text that is not a number.           *)
(* Row labels are the RangeIndex 0..n-1 that read_csv assigns.             *)
(***************************************************************************)
EXTENDS Integers, Sequences, FiniteSets, TLC

VARIABLES
    csv,        \* ../data/processed_data/processed_canadian_gp.csv on disk
    file,       \* ../models/random_forest_model.pkl on disk
    pc,         \* the statement of the cell the kernel is about to run
    error,      \* the exception that ended the run ("" when none)
    run,        \* number of the current execution of the cell
    data,       \* DataFrame returned by read_csv
    X, y,       \* feature frame and target series
    X_train, X_test, y_train, y_test,
    model,      \* the RandomForestClassifier object
    y_pred,     \* predictions on X_test
    stdout,     \* what the evaluation printed
    prev_split  \* the partitions the previous execution produced

vars == <<csv, file, pc, error, run, data, X, y, X_train, X_test, y_train,
          y_test, model, y_pred, stdout, prev_split>>

-----------------------------------------------------------------------------
(* Bounds of the model *)

MaxRows == 6
MaxRuns == 2
LiveMaxRows == 4

-----------------------------------------------------------------------------
(* Program constants *)

test_size_num == 1      \* test_size = 0.2 = 1/5
test_size_den == 5
n_estimators == 100

\* Multiplier, increment and modulus of the generator that stands in for
\* numpy's RandomState: a stream fully determined by the seed.
RngMul == 5
RngInc == 3
RngMod == 16

DroppedColumns == {"Position", "Points", "Win"}

-----------------------------------------------------------------------------
(* Input tables *)

Range(s) == {s[i] : i \in DOMAIN s}

\* Headers of the processed CSV the cell may find on disk.
Headers ==
    { <<"Grid", "Position", "Points", "Win">>,
      <<"Team", "Position", "Win", "Grid", "Points">>,
      <<"Grid", "Position", "Win">> }

\* The kinds of line the CSV may hold: a winner, a non-winner, and a
\* non-winner whose grid cell is text that is not a number.
RowKinds ==
    { [Grid |-> "1", Team |-> "3", Position |-> "1", Points |-> "25", Win |-> "1"],
      [Grid |-> "2", Team |-> "4", Position |-> "2", Points |-> "18", Win |-> "0"],
      [Grid |-> "PIT", Team |-> "4", Position |-> "9", Points |-> "0", Win |-> "0"] }

NumericText == {"0", "1", "2", "3", "4", "9", "18", "25"}

NoCsv == [exists |-> FALSE, columns |-> <<>>, rows |-> <<>>]
NoFile == [exists |-> FALSE, chunks |-> <<>>]
NoFrame == [columns |-> <<>>, rows |-> <<>>]
NoModel == [fitted |-> FALSE, n_estimators |-> n_estimators, classes_ |-> {},
            feature_names_in_ |-> <<>>, estimators_ |-> <<>>, fit_index |-> <<>>]
NoSplit == [done |-> FALSE, input |-> [X |-> NoFrame, y |-> <<>>], X_train |-> NoFrame,
            X_test |-> NoFrame, y_train |-> <<>>, y_test |-> <<>>]

-----------------------------------------------------------------------------
(* pandas *)

\* pd.read_csv: one row per line, labelled 0..n-1, one column per header name.
read_csv(f) ==
    [columns |-> f.columns,
     rows |-> [i \in DOMAIN f.rows |-> [id |-> i - 1, vals |-> f.rows[i]]]]

\* DataFrame.drop(columns=cols): the frame without the columns named in cols.
drop_keeps_points(df, cols) ==
    LET gone == cols \ {"Points"} IN
    [columns |-> SelectSeq(df.columns, LAMBDA c : c \notin gone),
     rows |-> [i \in DOMAIN df.rows |->
                 [id |-> df.rows[i].id,
                  vals |-> [c \in (Range(df.columns) \ gone) |-> df.rows[i].vals[c]]]]]

drop(df, cols) ==
    [columns |-> SelectSeq(df.columns, LAMBDA c : c \notin cols),
     rows |-> [i \in DOMAIN df.rows |->
                 [id |-> df.rows[i].id,
                  vals |-> [c \in (Range(df.columns) \ cols) |-> df.rows[i].vals[c]]]]]

\* data['Win']: the series of the column, same row labels.
column(df, c) ==
    [i \in DOMAIN df.rows |-> [id |-> df.rows[i].id, val |-> df.rows[i].vals[c]]]

\* X.iloc[pos] / y.iloc[pos] for a sequence of 0-based positions.
iloc_frame(df, pos) ==
    [columns |-> df.columns, rows |-> [k \in DOMAIN pos |-> df.rows[pos[k] + 1]]]

iloc_series(s, pos) == [k \in DOMAIN pos |-> s[pos[k] + 1]]

Index(rows) == [k \in DOMAIN rows |-> rows[k].id]

-----------------------------------------------------------------------------
(* numpy / scikit-learn: train_test_split *)

RngNext(s) == (RngMul * s + RngInc) % RngMod

Swap(a, i, j) == [a EXCEPT ![i] = a[j], ![j] = a[i]]

\* RandomState.shuffle: Fisher-Yates from the last position down, one draw
\* of the stream per position.
RECURSIVE Shuffle(_, _, _)
Shuffle(a, i, s) ==
    IF i <= 1 THEN a
    ELSE LET s2 == RngNext(s)
             j == (s2 % i) + 1
         IN Shuffle(Swap(a, i, j), i - 1, s2)

\* RandomState(seed).permutation(n): a permutation of 0..n-1.
permutation(n, seed) == Shuffle([k \in 1..n |-> k - 1], n, seed % RngMod)

\* random_state=42 of train_test_split.
split_seed_unseeded == 42 + run

split_random_state == 42

\* _validate_shuffle_split: n_test = ceil(test_size * n), n_train = n - n_test.
n_test_of(n) == (test_size_num * n + test_size_den - 1) \div test_size_den

n_train_of(n) == n - n_test_of(n)

\* ShuffleSplit._iter_indices: the first n_test entries of the permutation
\* are the test positions, the next n_train the train positions.
ShuffleSplit_overlapping(n, seed) ==
    LET perm == permutation(n, seed) IN
    [train |-> SubSeq(perm, n_test_of(n), n_test_of(n) + n_train_of(n) - 1),
     test  |-> SubSeq(perm, 1, n_test_of(n))]

ShuffleSplit(n, seed) ==
    LET perm == permutation(n, seed) IN
    [train |-> SubSeq(perm, n_test_of(n) + 1, n_test_of(n) + n_train_of(n)),
     test  |-> SubSeq(perm, 1, n_test_of(n))]

-----------------------------------------------------------------------------
(* scikit-learn: RandomForestClassifier, metrics *)

\* check_array: every cell of the frame converts to a float.
AllNumeric(df) ==
    \A i \in DOMAIN df.rows : \A c \in Range(df.columns) :
        df.rows[i].vals[c] \in NumericText

Labels(s) == {s[i].val : i \in DOMAIN s}

\* RandomForestClassifier(...).fit(Xf, ys): the fitted estimator.  The trees
\* are a function of the training sample alone, so the sample stands for
\* them; fit_index records which rows the sample was.
fit_on_values(Xf, ys) ==
    [fitted |-> TRUE,
     n_estimators |-> n_estimators,
     classes_ |-> Labels(ys),
     feature_names_in_ |-> <<>>,
     estimators_ |-> [k \in DOMAIN Xf.rows |-> [x |-> Xf.rows[k].vals, y |-> ys[k].val]],
     fit_index |-> Index(Xf.rows)]

fit(Xf, ys) ==
    [fitted |-> TRUE,
     n_estimators |-> n_estimators,
     classes_ |-> Labels(ys),
     feature_names_in_ |-> Xf.columns,
     estimators_ |-> [k \in DOMAIN Xf.rows |-> [x |-> Xf.rows[k].vals, y |-> ys[k].val]],
     fit_index |-> Index(Xf.rows)]

\* model.predict(Xf): one class of classes_ per row; which one depends on
\* the bootstrap samples and is left open.
Predictions(m, Xf) == [DOMAIN Xf.rows -> m.classes_]

Count(S) == Cardinality(S)

\* accuracy_score and classification_report of y_true against predictions.
Report(ys, preds) ==
    LET hits == {k \in DOMAIN ys : ys[k].val = preds[k]}
        labels == Labels(ys) \cup Range(preds)
    IN [printed |-> TRUE,
        accuracy |-> <<Count(hits), Len(ys)>>,
        per_class |-> [c \in labels |->
            [support   |-> Count({k \in DOMAIN ys : ys[k].val = c}),
             predicted |-> Count({k \in DOMAIN ys : preds[k] = c}),
             correct   |-> Count({k \in hits : preds[k] = c})]],
        y_true_index |-> Index(ys)]

NoReport == [printed |-> FALSE, accuracy |-> <<0, 0>>, per_class |-> <<>>,
             y_true_index |-> <<>>]

-----------------------------------------------------------------------------
(* joblib.dump *)

\* The pickle stream of the estimator, in the order it is written.
Serialize(m) ==
    << [key |-> "params", value |-> m.n_estimators],
       [key |-> "feature_names_in_", value |-> m.feature_names_in_],
       [key |-> "estimators_", value |-> [classes_ |-> m.classes_, trees |-> m.estimators_]] >>

NChunks == Len(Serialize(NoModel))

\* A stream that stops before its last chunk cannot be unpickled.
IsComplete(f) == f.exists /\ Len(f.chunks) = NChunks

-----------------------------------------------------------------------------
(* The cell *)

Running == {"load", "prepare", "split", "train", "evaluate", "save", "write"}

HasSplit == X_train.rows # <<>>

CurrentSplit ==
    [done |-> TRUE, input |-> [X |-> X, y |-> y], X_train |-> X_train, X_test |-> X_test,
     y_train |-> y_train, y_test |-> y_test]

\* A fresh kernel: no name of the cell is bound.
ClearNames ==
    /\ data' = NoFrame /\ X' = NoFrame /\ y' = <<>>
    /\ X_train' = NoFrame /\ X_test' = NoFrame
    /\ y_train' = <<>> /\ y_test' = <<>>
    /\ model' = NoModel /\ y_pred' = <<>> /\ stdout' = NoReport

Raise(e) == pc' = "failed" /\ error' = e

\* Before the first execution: the CSV is absent or is any table of at most
\* maxRows lines under one of the headers; no model has been saved.
InitWith(maxRows) ==
    /\ \/ csv = NoCsv
       \/ \E h \in Headers, n \in 0..maxRows : \E ks \in [1..n -> RowKinds] :
            csv = [exists |-> TRUE, columns |-> h,
                   rows |-> [i \in 1..n |-> [c \in Range(h) |-> ks[i][c]]]]
    /\ file = NoFile
    /\ pc = "load" /\ error = "" /\ run = 1
    /\ data = NoFrame /\ X = NoFrame /\ y = <<>>
    /\ X_train = NoFrame /\ X_test = NoFrame /\ y_train = <<>> /\ y_test = <<>>
    /\ model = NoModel /\ y_pred = <<>> /\ stdout = NoReport
    /\ prev_split = NoSplit

Init == InitWith(MaxRows)

\* data = pd.read_csv('../data/processed_data/processed_canadian_gp.csv')
LoadData ==
    /\ pc = "load"
    /\ IF csv.exists
       THEN /\ data' = read_csv(csv)
            /\ pc' = "prepare"
            /\ error' = error
       ELSE /\ Raise("FileNotFoundError")
            /\ data' = data
    /\ UNCHANGED <<csv, file, run, X, y, X_train, X_test, y_train, y_test,
                   model, y_pred, stdout, prev_split>>

\* X = data.drop(columns=['Position', 'Points', 'Win']);  y = data['Win']
PrepareFeatures ==
    /\ pc = "prepare"
    /\ IF DroppedColumns \subseteq Range(data.columns)
       THEN /\ X' = drop(data, DroppedColumns)
            /\ y' = column(data, "Win")
            /\ pc' = "split"
            /\ error' = error
       ELSE /\ Raise("KeyError")
            /\ UNCHANGED <<X, y>>
    /\ UNCHANGED <<csv, file, run, data, X_train, X_test, y_train, y_test,
                   model, y_pred, stdout, prev_split>>

\* X_train, X_test, y_train, y_test =
\*     train_test_split(X, y, test_size=0.2, random_state=42)
SplitData ==
    /\ pc = "split"
    /\ LET n == Len(X.rows) IN
       IF n_train_of(n) = 0
       THEN /\ Raise("ValueError")
            /\ UNCHANGED <<X_train, X_test, y_train, y_test>>
       ELSE LET ind == ShuffleSplit(n, split_random_state) IN
            /\ X_train' = iloc_frame(X, ind.train)
            /\ X_test' = iloc_frame(X, ind.test)
            /\ y_train' = iloc_series(y, ind.train)
            /\ y_test' = iloc_series(y, ind.test)
            /\ pc' = "train"
            /\ error' = error
    /\ UNCHANGED <<csv, file, run, data, X, y, model, y_pred, stdout, prev_split>>

\* model = RandomForestClassifier(n_estimators=100, random_state=42)
\* model.fit(X_train, y_train)
TrainModel_on_all ==
    /\ pc = "train"
    /\ IF X.columns # <<>> /\ AllNumeric(X)
       THEN /\ model' = fit(X, y)
            /\ pc' = "evaluate"
            /\ error' = error
       ELSE /\ Raise("ValueError")
            /\ model' = model
    /\ UNCHANGED <<csv, file, run, data, X, y, X_train, X_test, y_train, y_test,
                   y_pred, stdout, prev_split>>

TrainModel ==
    /\ pc = "train"
    /\ IF X_train.columns # <<>> /\ AllNumeric(X_train)
       THEN /\ model' = fit(X_train, y_train)
            /\ pc' = "evaluate"
            /\ error' = error
       ELSE /\ Raise("ValueError")
            /\ model' = model
    /\ UNCHANGED <<csv, file, run, data, X, y, X_train, X_test, y_train, y_test,
                   y_pred, stdout, prev_split>>

\* y_pred = model.predict(X_test)
\* print("Accuracy:", accuracy_score(y_test, y_pred))
\* print(classification_report(y_test, y_pred))
EvaluateModel_gated ==
    /\ pc = "evaluate"
    /\ IF AllNumeric(X_test)
       THEN \E p \in Predictions(model, X_test) :
            /\ y_pred' = p
            /\ stdout' = Report(y_test, p)
            /\ IF 2 * stdout'.accuracy[1] >= stdout'.accuracy[2]
               THEN pc' = "save" /\ error' = error
               ELSE Raise("LowAccuracy")
       ELSE /\ Raise("ValueError")
            /\ UNCHANGED <<y_pred, stdout>>
    /\ UNCHANGED <<csv, file, run, data, X, y, X_train, X_test, y_train, y_test,
                   model, prev_split>>

EvaluateModel ==
    /\ pc = "evaluate"
    /\ IF AllNumeric(X_test)
       THEN \E p \in Predictions(model, X_test) :
            /\ y_pred' = p
            /\ stdout' = Report(y_test, p)
            /\ pc' = "save"
            /\ error' = error
       ELSE /\ Raise("ValueError")
            /\ UNCHANGED <<y_pred, stdout>>
    /\ UNCHANGED <<csv, file, run, data, X, y, X_train, X_test, y_train, y_test,
                   model, prev_split>>

\* dump(model, '../models/random_forest_model.pkl'), opening the file:
\* open(filename, 'wb') creates or truncates it.
SaveOpen_before_fit ==
    /\ pc \in {"train", "save"}
    /\ file' = [exists |-> TRUE, chunks |-> <<>>]
    /\ pc' = "write"
    /\ UNCHANGED <<csv, error, run, data, X, y, X_train, X_test, y_train, y_test,
                   model, y_pred, stdout, prev_split>>

SaveOpen ==
    /\ pc = "save"
    /\ file' = [exists |-> TRUE, chunks |-> <<>>]
    /\ pc' = "write"
    /\ UNCHANGED <<csv, error, run, data, X, y, X_train, X_test, y_train, y_test,
                   model, y_pred, stdout, prev_split>>

\* dump, pickling: the stream reaches the file one chunk at a time.
SaveWrite ==
    /\ pc = "write"
    /\ Len(file.chunks) < NChunks
    /\ file' = [file EXCEPT !.chunks = Append(@, Serialize(model)[Len(@) + 1])]
    /\ UNCHANGED <<csv, pc, error, run, data, X, y, X_train, X_test, y_train,
                   y_test, model, y_pred, stdout, prev_split>>

\* dump, leaving the with-block: the file is closed and the cell ends.
SaveClose ==
    /\ pc = "write"
    /\ Len(file.chunks) = NChunks
    /\ pc' = "done"
    /\ UNCHANGED <<csv, file, error, run, data, X, y, X_train, X_test, y_train,
                   y_test, model, y_pred, stdout, prev_split>>

\* The kernel is interrupted or dies while the cell runs: the names are
\* lost, the files stay as they are.
Crash ==
    /\ pc \in Running
    /\ pc' = "crashed"
    /\ prev_split' = IF HasSplit THEN CurrentSplit ELSE prev_split
    /\ ClearNames
    /\ UNCHANGED <<csv, file, error, run>>

\* The CSV after the preprocessing step has appended one more line to it.
Appended ==
    IF csv.exists /\ Len(csv.rows) < MaxRows
    THEN {[csv EXCEPT !.rows = Append(@, [c \in Range(csv.columns) |-> k[c]])] :
            k \in RowKinds}
    ELSE {}

\* The cell is executed again; meanwhile the CSV may have been removed or
\* may have grown by a line.
Rerun ==
    /\ pc \in {"done", "failed", "crashed"}
    /\ run < MaxRuns
    /\ run' = run + 1
    /\ pc' = "load"
    /\ error' = ""
    /\ csv' \in {csv, NoCsv} \cup Appended
    /\ prev_split' = IF HasSplit THEN CurrentSplit ELSE prev_split
    /\ ClearNames
    /\ UNCHANGED file

Step ==
    \/ LoadData
    \/ PrepareFeatures
    \/ SplitData
    \/ TrainModel
    \/ EvaluateModel
    \/ SaveOpen
    \/ SaveWrite
    \/ SaveClose

Next ==
    \/ Step
    \/ Crash
    \/ Rerun

Spec == Init /\ [][Next]_vars

\* One execution of the cell that nothing interrupts: every statement that
\* can run does run.
LiveInit == InitWith(LiveMaxRows)

LiveSpec == LiveInit /\ [][Step]_vars /\ WF_vars(Step)

-----------------------------------------------------------------------------
(* Properties *)

OutcomeColumns == {"Win", "Position", "Points"}

Classes == {"0", "1"}

FrameColumns(df) ==
    Range(df.columns) \cup UNION {DOMAIN df.rows[i].vals : i \in DOMAIN df.rows}

Ids(rows) == {rows[k].id : k \in DOMAIN rows}

\* The columns of the CSV that are not outcome columns, in the CSV's order.
FeatureNames == SelectSeq(csv.columns, LAMBDA c : c \notin OutcomeColumns)

\* C1: the feature frame, both of its partitions and what the classifier was
\* fitted on never hold a 'Win', 'Position' or 'Points' column.
C1_NoOutcomeColumnInFeatures ==
    /\ \A df \in {X, X_train, X_test} : FrameColumns(df) \cap OutcomeColumns = {}
    /\ Range(model.feature_names_in_) \cap OutcomeColumns = {}
    /\ \A k \in DOMAIN model.estimators_ :
           DOMAIN model.estimators_[k].x \cap OutcomeColumns = {}

C1_Witness ==
    /\ pc = "evaluate"
    /\ OutcomeColumns \subseteq Range(data.columns)
    /\ Len(X_test.rows) >= 1

\* C2 (as claimed): once the kernel has died, the model file is absent or
\* holds a complete pickle, never the beginning of one.
C2_SaveIsAtomic ==
    pc = "crashed" => (~file.exists \/ IsComplete(file))

\* C3 (as claimed): a split on fewer than 2 rows, or one that would leave a
\* partition without one of the two classes, ends the run before anything
\* is fitted: no partitions exist for such a table.
C3_SplitRejectsInsufficientData ==
    /\ (X # NoFrame /\ Len(X.rows) < 2 /\ pc # "split") =>
           (pc = "failed" /\ ~HasSplit /\ ~model.fitted)
    /\ HasSplit => (Labels(y_train) = Classes /\ Labels(y_test) = Classes)

\* C4: after a split every row of the table is in exactly one of the two
\* partitions, with its own cells and its own label.
C4_PartitionsDisjointAndCovering ==
    HasSplit =>
        /\ Ids(X_train.rows) \cap Ids(X_test.rows) = {}
        /\ Ids(X_train.rows) \cup Ids(X_test.rows) = {i - 1 : i \in DOMAIN csv.rows}
        /\ Len(X_train.rows) + Len(X_test.rows) = Len(csv.rows)
        /\ \A k \in DOMAIN X_train.rows :
              /\ y_train[k].id = X_train.rows[k].id
              /\ y_train[k].val = csv.rows[X_train.rows[k].id + 1]["Win"]
              /\ \A c \in Range(X_train.columns) :
                    X_train.rows[k].vals[c] = csv.rows[X_train.rows[k].id + 1][c]
        /\ \A k \in DOMAIN X_test.rows :
              /\ y_test[k].id = X_test.rows[k].id
              /\ y_test[k].val = csv.rows[X_test.rows[k].id + 1]["Win"]
              /\ \A c \in Range(X_test.columns) :
                    X_test.rows[k].vals[c] = csv.rows[X_test.rows[k].id + 1][c]

C4_Witness ==
    /\ HasSplit
    /\ Len(X_train.rows) = 4
    /\ Len(X_test.rows) = 2

C6_FitRejectsSingleClass ==
    (HasSplit /\ Cardinality(Labels(y_train)) < 2) =>
        /\ ~model.fitted
        /\ pc \in {"train", "failed"}

\* C7: on a table whose feature cells are all numbers, once the classifier
\* is fitted the execution goes on to store the complete artifact, whatever
\* the evaluation prints.
C7_EvaluationNeverBlocksSave ==
    (pc = "evaluate" /\ AllNumeric(X)) ~> (pc = "done" /\ IsComplete(file))

C7_Witness ==
    /\ pc = "done"
    /\ IsComplete(file)
    /\ stdout.printed
    /\ stdout.accuracy[1] = 0

\* C8: the model file changes only in the save step of an execution that
\* has loaded, split, fitted and evaluated, and what is written is the
\* pickle of that execution's fitted classifier.
C8_FileWrittenOnlyAfterFit ==
    [][file' # file =>
          /\ pc \in {"save", "write"}
          /\ data # NoFrame
          /\ HasSplit
          /\ model.fitted
          /\ stdout.printed
          /\ file'.exists
          /\ Len(file'.chunks) <= NChunks
          /\ file'.chunks = SubSeq(Serialize(model), 1, Len(file'.chunks))]_vars

C8_Witness ==
    /\ run = 2
    /\ pc = "failed"
    /\ IsComplete(file)

\* C9: when the save has completed, the file holds the fitted trees and the
\* feature names of the CSV in the CSV's order.
C9_ArtifactHoldsParametersAndSchema ==
    pc = "done" =>
        /\ IsComplete(file)
        /\ file.chunks[2] = [key |-> "feature_names_in_", value |-> FeatureNames]
        /\ file.chunks[3].key = "estimators_"
        /\ file.chunks[3].value.trees # <<>>
        /\ file.chunks[3].value.trees = model.estimators_
        /\ file.chunks[3].value.classes_ = model.classes_

C9_Witness ==
    /\ pc = "done"
    /\ IsComplete(file)
    /\ FeatureNames = <<"Team", "Grid">>

\* C10: the classifier is fitted on the rows of the train partition and on
\* no row of the test partition; the metrics are computed on the rows of
\* the test partition, against their own labels, and on no train row.
C10_TrainTestSeparation ==
    /\ model.fitted =>
          /\ Range(model.fit_index) = Ids(X_train.rows)
          /\ Range(model.fit_index) \cap Ids(X_test.rows) = {}
          /\ Len(model.estimators_) = Len(X_train.rows)
          /\ \A k \in DOMAIN model.estimators_ :
                /\ model.estimators_[k].x = X_train.rows[k].vals
                /\ model.estimators_[k].y = csv.rows[X_train.rows[k].id + 1]["Win"]
    /\ stdout.printed =>
          /\ stdout.y_true_index = Index(X_test.rows)
          /\ Range(stdout.y_true_index) \cap Ids(X_train.rows) = {}
          /\ DOMAIN y_pred = DOMAIN X_test.rows
          /\ stdout.accuracy[2] = Len(X_test.rows)
          /\ stdout.accuracy[1] =
                Cardinality({k \in DOMAIN X_test.rows :
                    y_pred[k] = csv.rows[X_test.rows[k].id + 1]["Win"]})

C10_Witness ==
    /\ pc = "save"
    /\ stdout.printed
    /\ Len(X_train.rows) >= 4
    /\ Len(X_test.rows) = 2

====
